---- MODULE Spec2Model ----
(***************************************************************************)
(* Model of the acas simplifier: the canonical order on SimpleExpr         *)
(* (src/cmp.rs), the generic Sum/Product merge engine and the power        *)
(* simplification (src/simplify/ops.rs), and the helpers of                *)
(* src/simplify.rs.                                                        *)
(*                                                                         *)
(* An expression (basic or simple, the two enums have the same variants)   *)
(* is a record [k, n, d, s, l]: k the variant, n/d the rational of a       *)
(* Const, s the name of a Symbol or Function, l the children (the list of  *)
(* a Sum/Product, <<base, exponent>> of a Pow, <<operand>> of a Factorial, *)
(* the arguments of a Function).                                           *)
(***************************************************************************)
EXTENDS Integers, Sequences, FiniteSets, TLC

VARIABLES input, output, pc

vars == <<input, output, pc>>

(***************************************************************************)
(* Bounds of the explored inputs.                                          *)
(***************************************************************************)
\* integer constants of the inputs range over -1 .. MaxInt
MaxInt == 2
\* longest child list of a flat (leaf-only) Sum or Product of the inputs
MaxLen == 3

(***************************************************************************)
(* Expressions.                                                            *)
(***************************************************************************)
Const(n, d) == [k |-> "Const", n |-> n, d |-> d, s |-> "", l |-> <<>>]

Symbol(s) == [k |-> "Symbol", n |-> 0, d |-> 1, s |-> s, l |-> <<>>]

Product(l) == [k |-> "Product", n |-> 0, d |-> 1, s |-> "", l |-> l]

Sum(l) == [k |-> "Sum", n |-> 0, d |-> 1, s |-> "", l |-> l]

Pow(b, e) == [k |-> "Pow", n |-> 0, d |-> 1, s |-> "", l |-> <<b, e>>]

Factorial(x) == [k |-> "Factorial", n |-> 0, d |-> 1, s |-> "", l |-> <<x>>]

Function(s, l) == [k |-> "Function", n |-> 0, d |-> 1, s |-> s, l |-> l]

\* From<i32> for SimpleExpr
FromInt(i) == Const(i, 1)

\* SimpleExpr::is_constant
is_constant(x) == x.k = "Const"

\* PartialEq<i64> for SimpleExpr
EqInt(x, i) == x.k = "Const" /\ x.n = i /\ x.d = 1

(***************************************************************************)
(* Constant: a rational in lowest terms with a positive denominator.       *)
(***************************************************************************)
Abs(i) == IF i < 0 THEN -i ELSE i

RECURSIVE Gcd(_, _)
Gcd(a, b) == IF b = 0 THEN a ELSE Gcd(b, a % b)

\* the lowest-terms form of n/d, d # 0
Normalize(n, d) ==
    LET g == Gcd(Abs(n), Abs(d))
        sg == IF d < 0 THEN -1 ELSE 1
    IN  Const((sg * n) \div g, (sg * d) \div g)

ConstAdd(x, y) == Normalize(x.n * y.d + y.n * x.d, x.d * y.d)

ConstMul(x, y) == Normalize(x.n * y.n, x.d * y.d)

\* Ord for Constant: numeric order
ConstCmp(x, y) ==
    IF x.n * y.d < y.n * x.d THEN "Less"
    ELSE IF x.n * y.d > y.n * x.d THEN "Greater" ELSE "Equal"

is_zero(c) == c.n = 0

is_one(c) == c.n = 1 /\ c.d = 1

is_positive(c) == c.n > 0

\* Constant::as_integer is Some
is_integer(c) == c.d = 1

RECURSIVE IntPow(_, _)
IntPow(b, e) == IF e = 0 THEN 1 ELSE b * IntPow(b, e - 1)

(***************************************************************************)
(* Canonical order (src/cmp.rs).                                           *)
(***************************************************************************)
reverse(o) == IF o = "Less" THEN "Greater" ELSE IF o = "Greater" THEN "Less" ELSE "Equal"

\* usize::cmp
LenCmp(m, n) == IF m < n THEN "Less" ELSE IF m > n THEN "Greater" ELSE "Equal"

\* String::cmp on the names the model uses
NameRank(s) == CASE s = "f" -> 1 [] s = "x" -> 2 [] s = "y" -> 3 [] s = "z" -> 4 [] OTHER -> 0

NameCmp(s, t) == LenCmp(NameRank(s), NameRank(t))

Min(m, n) == IF m < n THEN m ELSE n

RECURSIVE cmp(_, _)
RECURSIVE cmp_zip_rev(_, _, _)
RECURSIVE cmp_vec(_, _, _)

\* the loop of cmp_list: the zipped pairs 1..i, visited from pair i down to pair 1
cmp_zip_rev(a, b, i) ==
    IF i = 0 THEN LenCmp(Len(a), Len(b))
    ELSE LET o == cmp(a[i], b[i])
         IN  IF o = "Equal" THEN cmp_zip_rev(a, b, i - 1) ELSE o

cmp_list(a, b) == cmp_zip_rev(a, b, Min(Len(a), Len(b)))

\* Vec::cmp: lexicographic from the front, from index i on
cmp_vec(a, b, i) ==
    IF i > Len(a) \/ i > Len(b) THEN LenCmp(Len(a), Len(b))
    ELSE LET o == cmp(a[i], b[i])
         IN  IF o = "Equal" THEN cmp_vec(a, b, i + 1) ELSE o

\* Ord for the pair (SimpleExpr, SimpleExpr) inside a Pow
cmp_pair(a0, a1, b0, b1) ==
    LET o == cmp(a0, b0)
    IN  IF o = "Equal" THEN cmp(a1, b1) ELSE o

\* the arms of common_ord!, in the order of the macro
cmp(a, b) ==
    IF a = b THEN "Equal"
    ELSE IF a.k = "Const" /\ b.k = "Const" THEN ConstCmp(a, b)
    ELSE IF a.k = "Const" THEN "Less"
    ELSE IF b.k = "Const" THEN "Greater"
    ELSE IF a.k = "Product" /\ b.k = "Product" THEN cmp_list(a.l, b.l)
    ELSE IF a.k = "Product" THEN cmp_list(a.l, <<b>>)
    ELSE IF b.k = "Product" THEN reverse(cmp_list(<<a>>, b.l))
    ELSE IF a.k = "Pow" /\ b.k = "Pow" THEN cmp_pair(a.l[1], a.l[2], b.l[1], b.l[2])
    ELSE IF a.k = "Pow" THEN cmp_pair(a.l[1], a.l[2], b, FromInt(1))
    ELSE IF b.k = "Pow" THEN cmp_pair(a, FromInt(1), b.l[1], b.l[2])
    ELSE IF a.k = "Sum" /\ b.k = "Sum" THEN cmp_list(a.l, b.l)
    ELSE IF a.k = "Sum" THEN cmp_list(a.l, <<b>>)
    ELSE IF b.k = "Sum" THEN reverse(cmp_list(<<a>>, b.l))
    ELSE IF a.k = "Factorial" /\ b.k = "Factorial" THEN cmp(a.l[1], b.l[1])
    ELSE IF a.k = "Factorial" THEN (IF a.l[1] = b THEN "Greater" ELSE cmp(a.l[1], b))
    ELSE IF b.k = "Factorial" THEN (IF b.l[1] = a THEN "Less" ELSE cmp(a, b.l[1]))
    ELSE IF a.k = "Function" /\ b.k = "Function"
         THEN (IF a.s = b.s THEN cmp_vec(a.l, b.l, 1) ELSE NameCmp(a.s, b.s))
    ELSE IF a.k = "Function"
         THEN (IF a.s = b.s THEN "Greater" ELSE NameCmp(a.s, b.s))
    ELSE IF b.k = "Function"
         THEN (IF a.s = b.s THEN "Less" ELSE NameCmp(a.s, b.s))
    ELSE NameCmp(a.s, b.s)

\* PartialOrd: a < b, a > b
lt(a, b) == cmp(a, b) = "Less"

gt(a, b) == cmp(a, b) = "Greater"

(***************************************************************************)
(* Results.  ComputeResult<T> is Ok(v) or Err(Undefined); a call may also  *)
(* end in a panic (expect, assert!, unreachable!, todo!).  A failed result *)
(* carries a placeholder of the type of v.                                 *)
(***************************************************************************)
Ok(v) == [t |-> "Ok", v |-> v]

NoExpr == FromInt(0)

UndefinedExpr == [t |-> "Undefined", v |-> NoExpr]

PanicExpr == [t |-> "Panic", v |-> NoExpr]

PanicList == [t |-> "Panic", v |-> <<>>]

\* the `?` operator: the failure of r, as a result of an expression / of a list
FailExpr(r) == [t |-> r.t, v |-> NoExpr]

FailList(r) == [t |-> r.t, v |-> <<>>]

\* ComputeResult<Option<SmallVec>>: the result of simplify_pair_collect
CollectSome(l) == [t |-> "Ok", some |-> TRUE, v |-> l]

CollectNone == [t |-> "Ok", some |-> FALSE, v |-> <<>>]

CollectFail(r) == [t |-> r.t, some |-> FALSE, v |-> <<>>]

(***************************************************************************)
(* Rational kernel (RationalExpr): evaluation of the deferred forms the    *)
(* simplifier builds.                                                      *)
(***************************************************************************)
RECURSIVE MulEval(_)
\* RationalExpr::Mul(list).simplify(): the product of the constants, 1 when empty
MulEval(l) == IF l = <<>> THEN Const(1, 1) ELSE ConstMul(Head(l), MulEval(Tail(l)))

\* (RationalExpr + RationalExpr).simplify().into_algebraic_expr()
RationalAdd(ra, rb) == Ok(ConstAdd(MulEval(ra), MulEval(rb)))

\* RationalExpr::Pow(base, exp).simplify(): base^exp, a negative exp via the reciprocal
RationalPow(c, e) ==
    IF e >= 0 THEN Ok(Normalize(IntPow(c.n, e), IntPow(c.d, e)))
    ELSE IF c.n = 0 THEN UndefinedExpr
    ELSE Ok(Normalize(IntPow(c.d, -e), IntPow(c.n, -e)))

(***************************************************************************)
(* src/simplify.rs                                                         *)
(***************************************************************************)
\* index of the first non-constant child, 0 when there is none
RECURSIVE position_non_constant(_, _)
position_non_constant(l, i) ==
    IF i > Len(l) THEN 0
    ELSE IF ~is_constant(l[i]) THEN i ELSE position_non_constant(l, i + 1)

\* SimpleExpr::split_product: r = "Ok" with (rational, symbolic), "Err" for a
\* constant, "Panic" for a product of constants only
split_product(x) ==
    IF x.k = "Product" THEN
        LET i == position_non_constant(x.l, 1)
        IN  IF i = 0 THEN [r |-> "Panic", rational |-> <<>>, sym |-> NoExpr]
            ELSE LET symbols == SubSeq(x.l, i, Len(x.l))
                 IN  [r |-> "Ok", rational |-> SubSeq(x.l, 1, i - 1),
                      sym |-> IF Len(symbols) = 1 THEN symbols[1] ELSE Product(symbols)]
    ELSE IF x.k = "Const" THEN [r |-> "Err", rational |-> <<>>, sym |-> x]
    ELSE [r |-> "Ok", rational |-> <<Const(1, 1)>>, sym |-> x]

\* SimpleExpr::base is Some
has_base(x) == x.k # "Const"

\* SimpleExpr::base, where it is Some
base(x) == IF x.k = "Pow" THEN x.l[1] ELSE x

\* SimpleExpr::exponent, where it is Some
exponent(x) == IF x.k = "Pow" THEN x.l[2] ELSE FromInt(1)

(***************************************************************************)
(* src/simplify/ops.rs: the Operation trait; op is "Sum" or "Product".     *)
(***************************************************************************)
HAS_ABSORBING_ELEMENT(op) == op = "Product"

is_absorbing_element(op, x) == op = "Product" /\ x.k = "Const" /\ is_zero(x)

identity(op) == IF op = "Product" THEN FromInt(1) ELSE FromInt(0)

is_identity(op, c) == IF op = "Product" THEN is_one(c) ELSE is_zero(c)

is_list(op, x) == x.k = op

make_list(op, l) == IF op = "Product" THEN Product(l) ELSE Sum(l)

extract_or_make_list(op, x) == IF is_list(op, x) THEN x.l ELSE <<x>>

do_constant(op, x, y) == IF op = "Product" THEN ConstMul(x, y) ELSE ConstAdd(x, y)

\* slice::sort_unstable on a short slice: insertion of x into the sorted prefix v
RECURSIVE shift_tail(_, _, _)
shift_tail(v, x, j) ==
    IF j >= 1 /\ lt(x, v[j]) THEN shift_tail(v, x, j - 1)
    ELSE SubSeq(v, 1, j) \o <<x>> \o SubSeq(v, j + 1, Len(v))

RECURSIVE insertion_sort(_, _)
insertion_sort(v, i) ==
    IF i > Len(v) THEN v
    ELSE insertion_sort(shift_tail(SubSeq(v, 1, i - 1), v[i], i - 1) \o SubSeq(v, i + 1, Len(v)), i + 1)

sort_unstable(v) == insertion_sort(v, 2)

\* The functions of ops.rs call one another recursively.  run(f, args) is the
\* call of function f on the arguments args; each function below is that call,
\* and its body, translated from the source, is the definition <f>_body.
RECURSIVE run(_, _)

simplify(x) == run("simplify", <<x>>)

simplify_all(exprs, i, acc) == run("simplify_all", <<exprs, i, acc>>)

simplify_entry(op, exprs) == run("simplify_entry", <<op, exprs>>)

op_simplify(op, exprs) == run("op_simplify", <<op, exprs>>)

simplify_rec(op, list) == run("simplify_rec", <<op, list>>)

simplify_pair(op, a, b) == run("simplify_pair", <<op, a, b>>)

simplify_pair_collect(op, a, b) == run("simplify_pair_collect", <<op, a, b>>)

merge(op, a, b) == run("merge", <<op, a, b>>)

merge_into(op, a, b, out) == run("merge_into", <<op, a, b, out>>)

simplify_power(b, e) == run("simplify_power", <<b, e>>)

simplify_integer_power(b, exp) == run("simplify_integer_power", <<b, exp>>)

\* Product::simplify_pair_collect
product_collect(a, b) ==
    IF has_base(a) /\ has_base(b) /\ base(a) = base(b) THEN
        LET e == op_simplify("Sum", <<exponent(a), exponent(b)>>)
        IN  IF e.t # "Ok" THEN CollectFail(e)
            ELSE LET result == simplify_power(base(a), e.v)
                 IN  IF result.t # "Ok" THEN CollectFail(result)
                     ELSE IF result.v.k = "Const" /\ is_one(result.v) THEN CollectSome(<<>>)
                     ELSE CollectSome(<<result.v>>)
    ELSE CollectNone

\* Sum::simplify_pair_collect
sum_collect(a, b) ==
    LET sa == split_product(a)
        sb == split_product(b)
    IN  IF sa.r # "Ok" THEN CollectFail(PanicList)
        ELSE IF sb.r # "Ok" THEN CollectFail(PanicList)
        ELSE IF sa.sym = sb.sym THEN
            LET sum == RationalAdd(sa.rational, sb.rational)
            IN  IF sum.t # "Ok" THEN CollectFail(sum)
                ELSE LET p == simplify_pair("Product", sum.v, sa.sym)
                     IN  IF p.t # "Ok" THEN CollectFail(p)
                         ELSE CollectSome(<<Product(p.v)>>)
        ELSE CollectNone

simplify_pair_collect_body(op, a, b) ==
    IF op = "Product" THEN product_collect(a, b) ELSE sum_collect(a, b)

simplify_pair_body(op, a, b) ==
    IF is_list(op, a) \/ is_list(op, b)
    THEN merge(op, extract_or_make_list(op, a), extract_or_make_list(op, b))
    ELSE IF a.k = "Const" /\ b.k = "Const" THEN
        LET result == do_constant(op, a, b)
        IN  IF is_one(result) THEN Ok(<<>>) ELSE Ok(<<result>>)
    ELSE IF a.k = "Const" /\ is_identity(op, a) THEN Ok(<<b>>)
    ELSE IF b.k = "Const" /\ is_identity(op, b) THEN Ok(<<a>>)
    ELSE LET res == simplify_pair_collect(op, a, b)
         IN  IF res.t # "Ok" THEN FailList(res)
             ELSE IF res.some THEN Ok(res.v)
             ELSE IF lt(b, a) THEN Ok(<<b, a>>)
             ELSE Ok(<<a, b>>)

simplify_rec_body(op, list) ==
    IF Len(list) = 2 THEN simplify_pair(op, list[1], list[2])
    ELSE IF ~(Len(list) > 2) THEN PanicList
    ELSE merge(op, extract_or_make_list(op, Head(list)), Tail(list))

\* the children simplified front to back, up to the first that fails
simplify_all_body(exprs, i, acc) ==
    IF i > Len(exprs) THEN Ok(acc)
    ELSE LET r == simplify(exprs[i])
         IN  IF r.t # "Ok" THEN FailList(r) ELSE simplify_all(exprs, i + 1, Append(acc, r.v))

simplify_entry_body(op, exprs) ==
    LET r == simplify_all(exprs, 1, <<>>)
    IN  IF r.t # "Ok" THEN FailExpr(r) ELSE op_simplify(op, sort_unstable(r.v))

\* Operation::simplify
op_simplify_body(op, exprs) ==
    IF HAS_ABSORBING_ELEMENT(op) /\ \E i \in 1..Len(exprs) : is_absorbing_element(op, exprs[i])
    THEN Ok(FromInt(0))
    ELSE IF Len(exprs) = 1 THEN Ok(exprs[1])
    ELSE LET list == simplify_rec(op, exprs)
         IN  IF list.t # "Ok" THEN FailExpr(list)
             ELSE IF Len(list.v) = 0 THEN Ok(identity(op))
             ELSE IF Len(list.v) = 1 THEN Ok(list.v[1])
             ELSE Ok(make_list(op, list.v))

\* the second element put back on the other list
reinsert_other(would_swap, second, a_rest, b_rest) ==
    IF would_swap THEN [a |-> a_rest, b |-> <<second>> \o b_rest]
    ELSE [a |-> <<second>> \o a_rest, b |-> b_rest]

\* the arm 2 of merge_into: a_rest.insert(0, second) when would_swap, else
\* b_rest.insert(0, second)
reinsert(would_swap, second, a_rest, b_rest) ==
    IF would_swap THEN [a |-> <<second>> \o a_rest, b |-> b_rest]
    ELSE [a |-> a_rest, b |-> <<second>> \o b_rest]

merge_body(op, a, b) == merge_into(op, a, b, <<>>)

\* the result is the final content of out
merge_into_body(op, a, b, out) ==
    IF b = <<>> THEN Ok(out \o a)
    ELSE IF a = <<>> THEN Ok(out \o b)
    ELSE LET a_rest == Tail(a)
             b_rest == Tail(b)
             would_swap == gt(Head(a), Head(b))
             simplified == simplify_pair(op, Head(a), Head(b))
         IN  IF simplified.t # "Ok" THEN simplified
             ELSE IF Len(simplified.v) = 0 THEN merge_into(op, a_rest, b_rest, out)
             ELSE IF Len(simplified.v) = 1
                  THEN merge_into(op, a_rest, b_rest, out \o simplified.v)
             ELSE IF Len(simplified.v) = 2 THEN
                  LET r == reinsert(would_swap, simplified.v[2], a_rest, b_rest)
                  IN  merge_into(op, r.a, r.b, Append(out, simplified.v[1]))
             ELSE PanicList

\* simplify_integer_power without its exponent-0 arm
simplify_integer_power_no_zero(b, exp) ==
    IF exp = 1 THEN Ok(b)
    ELSE IF b.k = "Const" THEN RationalPow(b, exp)
    ELSE IF b.k = "Pow" THEN
        LET e == op_simplify("Product", <<FromInt(exp), b.l[2]>>)
        IN  IF e.t # "Ok" THEN e
            ELSE IF e.v.k = "Const" /\ is_integer(e.v)
                 THEN simplify_integer_power(b.l[1], e.v.n)
            ELSE Ok(Pow(b.l[1], e.v))
    ELSE PanicExpr

\* BasicAlgebraicExpr::simplify_integer_power; exp is the integer exponent
simplify_integer_power_body(b, exp) ==
    IF exp = 0 THEN Ok(FromInt(1))
    ELSE IF exp = 1 THEN Ok(b)
    ELSE IF b.k = "Const" THEN RationalPow(b, exp)
    ELSE IF b.k = "Pow" THEN
        LET e == op_simplify("Product", <<FromInt(exp), b.l[2]>>)
        IN  IF e.t # "Ok" THEN e
            ELSE IF e.v.k = "Const" /\ is_integer(e.v)
                 THEN simplify_integer_power(b.l[1], e.v.n)
            ELSE Ok(Pow(b.l[1], e.v))
    ELSE PanicExpr

\* simplify_power deciding 0^e only for an integer constant e
simplify_power_integer_only(b, e) ==
    IF EqInt(b, 0) THEN
        (IF e.k = "Const" /\ is_integer(e) /\ is_positive(e) THEN Ok(FromInt(0))
         ELSE IF e.k = "Const" /\ is_integer(e) THEN UndefinedExpr
         ELSE Ok(Pow(b, e)))
    ELSE IF EqInt(b, 1) THEN Ok(Const(1, 1))
    ELSE IF e.k = "Const" /\ is_integer(e) THEN simplify_integer_power(b, e.n)
    ELSE Ok(Pow(b, e))

\* BasicAlgebraicExpr::simplify_power
simplify_power_body(b, e) ==
    IF EqInt(b, 0) THEN
        (IF e.k = "Const" /\ is_positive(e) THEN Ok(FromInt(0))
         ELSE IF e.k = "Const" THEN UndefinedExpr
         ELSE Ok(Pow(b, e)))
    ELSE IF EqInt(b, 1) THEN Ok(Const(1, 1))
    ELSE IF e.k = "Const" /\ is_integer(e) THEN simplify_integer_power(b, e.n)
    ELSE Ok(Pow(b, e))

\* BasicAlgebraicExpr::simplify
simplify_body(x) ==
    IF x.k = "Const" THEN (IF x.d = 0 THEN UndefinedExpr ELSE Ok(x))
    ELSE IF x.k = "Symbol" THEN Ok(x)
    ELSE IF x.k = "Pow" THEN
        LET b == simplify(x.l[1])
        IN  IF b.t # "Ok" THEN b
            ELSE LET e == simplify(x.l[2])
                 IN  IF e.t # "Ok" THEN e ELSE simplify_power(b.v, e.v)
    ELSE IF x.k = "Sum" THEN simplify_entry("Sum", x.l)
    ELSE IF x.k = "Product" THEN simplify_entry("Product", x.l)
    ELSE PanicExpr

\* the dispatch of a call to the body of the function called
run(f, args) ==
    CASE f = "simplify" -> simplify_body(args[1])
      [] f = "simplify_all" -> simplify_all_body(args[1], args[2], args[3])
      [] f = "simplify_entry" -> simplify_entry_body(args[1], args[2])
      [] f = "op_simplify" -> op_simplify_body(args[1], args[2])
      [] f = "simplify_rec" -> simplify_rec_body(args[1], args[2])
      [] f = "simplify_pair" -> simplify_pair_body(args[1], args[2], args[3])
      [] f = "simplify_pair_collect" -> simplify_pair_collect_body(args[1], args[2], args[3])
      [] f = "merge" -> merge_body(args[1], args[2], args[3])
      [] f = "merge_into" -> merge_into_body(args[1], args[2], args[3], args[4])
      [] f = "simplify_power" -> simplify_power_body(args[1], args[2])
      [] f = "simplify_integer_power" -> simplify_integer_power_body(args[1], args[2])

(***************************************************************************)
(* The explored inputs: basic expressions, as the parser or a caller of    *)
(* simplify may build them.                                                *)
(***************************************************************************)
Symbols == {"x", "y"}

Leaves == {FromInt(i) : i \in -1..MaxInt} \cup {Symbol(s) : s \in Symbols}

SymLeaves == {Symbol(s) : s \in Symbols}

\* the sequences over S of length lo .. hi
SeqsOf(S, lo, hi) == UNION {[1..n -> S] : n \in lo..hi}

\* Sum and Product over leaves, of every length up to MaxLen
Flat == {make_list(op, l) : op \in {"Sum", "Product"}, l \in SeqsOf(Leaves, 0, MaxLen)}

\* the pairs of leaves under each binary shape
Small == Leaves
         \cup {Pow(b, e) : b \in Leaves, e \in Leaves}
         \cup {make_list(op, <<a, b>>) : op \in {"Sum", "Product"}, a \in Leaves, b \in Leaves}

\* the bases whose powers stay small whatever the exponent: 0, 1, -1, the symbols
UnitLeaves == {FromInt(i) : i \in -1..1} \cup SymLeaves

\* one more level: two Small operands (in a power one of the two is a leaf, so
\* that the constants stay within TLC's integers), or two symbols and a Small
\* operand
Nested == {Pow(b, e) : b \in Small, e \in Leaves}
          \cup {Pow(b, e) : b \in UnitLeaves, e \in Small}
          \cup {make_list(op, <<a, b>>) : op \in {"Sum", "Product"}, a \in Small, b \in Small}
          \cup {make_list(op, <<a, b, c>>) :
                    op \in {"Sum", "Product"}, a \in SymLeaves, b \in SymLeaves, c \in Small}

\* a constant whose denominator is zero
ZeroDenom == Const(1, 0)

\* a zero-denominator constant, alone and beside or under a Small operand
Poisoned == {ZeroDenom}
            \cup {make_list(op, <<ZeroDenom, a>>) : op \in {"Sum", "Product"}, a \in Small}
            \cup {make_list(op, <<a, ZeroDenom>>) : op \in {"Sum", "Product"}, a \in Small}
            \cup {Pow(ZeroDenom, a) : a \in Small}
            \cup {Pow(a, ZeroDenom) : a \in Small}

\* Factorial and Function nodes over Small operands
Opaque == {Factorial(a) : a \in Small}
          \cup {Function("f", <<a>>) : a \in Small}
          \cup {Function("f", <<a, b>>) : a \in Leaves, b \in Leaves}

Inputs == Flat \cup Small \cup Nested \cup Poisoned \cup Opaque

(***************************************************************************)
(* The engine API as a state machine: a caller holds a basic expression    *)
(* and calls simplify on it once.                                          *)
(***************************************************************************)
Init ==
    /\ input \in Inputs
    /\ output = PanicExpr
    /\ pc = "start"

\* simplify(input) returns a value
SimplifyOk ==
    /\ pc = "start"
    /\ simplify(input).t = "Ok"
    /\ output' = simplify(input)
    /\ pc' = "done"
    /\ UNCHANGED input

\* simplify(input) returns Err(Undefined)
SimplifyUndefined ==
    /\ pc = "start"
    /\ simplify(input).t = "Undefined"
    /\ output' = simplify(input)
    /\ pc' = "done"
    /\ UNCHANGED input

\* simplify(input) panics
SimplifyPanic ==
    /\ pc = "start"
    /\ simplify(input).t = "Panic"
    /\ output' = simplify(input)
    /\ pc' = "panicked"
    /\ UNCHANGED input

Next == SimplifyOk \/ SimplifyUndefined \/ SimplifyPanic

Spec == Init /\ [][Next]_vars

(***************************************************************************)
(* Vocabulary of the properties.                                           *)
(***************************************************************************)
RECURSIVE SubExprs(_)
\* e and every expression below it
SubExprs(e) == {e} \cup UNION {SubExprs(e.l[i]) : i \in 1..Len(e.l)}

\* the Sum and Product nodes of e
NaryNodes(e) == {m \in SubExprs(e) : m.k \in {"Sum", "Product"}}

RECURSIVE ToBasic(_)
\* the basic expression of the same shape as the simple expression s
ToBasic(s) ==
    LET kids == [i \in 1..Len(s.l) |-> ToBasic(s.l[i])]
    IN  CASE s.k = "Const" -> Const(s.n, s.d)
          [] s.k = "Symbol" -> Symbol(s.s)
          [] s.k = "Sum" -> Sum(kids)
          [] s.k = "Product" -> Product(kids)
          [] s.k = "Pow" -> Pow(kids[1], kids[2])
          [] s.k = "Factorial" -> Factorial(kids[1])
          [] OTHER -> Function(s.s, kids)

\* simplify returned a value
Returned == pc = "done" /\ output.t = "Ok"

\* C1: in every value simplify returns, the children of every Sum and every
\* Product are in strictly ascending canonical order.
C1_StrictlySorted ==
    Returned =>
        \A m \in NaryNodes(output.v) :
            \A i \in 1..(Len(m.l) - 1) : lt(m.l[i], m.l[i + 1])

\* C2: in every value simplify returns, no Sum has a direct Sum child and no
\* Product has a direct Product child.
C2_NoSameOpChild ==
    Returned =>
        \A m \in NaryNodes(output.v) :
            \A i \in 1..Len(m.l) : m.l[i].k # m.k

\* C3: no Sum of a result contains Const(0) and no Product contains Const(1);
\* two constants combine to their sum (product), which is dropped exactly when
\* it is the identity of the operation, so that a Sum (Product) of two
\* constants simplifies to the constant that is their sum (product).
C3_NoIdentityChild ==
    Returned =>
        /\ \A m \in NaryNodes(output.v) :
               \A i \in 1..Len(m.l) :
                   ~(m.l[i].k = "Const" /\ is_identity(m.k, m.l[i]))
        /\ (/\ input.k \in {"Sum", "Product"}
            /\ Len(input.l) = 2
            /\ input.l[1].k = "Const"
            /\ input.l[2].k = "Const")
           => output.v = do_constant(input.k, input.l[1], input.l[2])

\* C4: no Sum or Product node of a result has exactly one child or no child.
C4_NoSingleton ==
    Returned => \A m \in NaryNodes(output.v) : Len(m.l) >= 2

\* C5: no result contains a Product node with a Const(0) child.
C5_NoZeroFactor ==
    Returned =>
        \A m \in NaryNodes(output.v) :
            m.k = "Product" =>
                \A i \in 1..Len(m.l) : ~(m.l[i].k = "Const" /\ is_zero(m.l[i]))

\* the symbolic part of a child of a Sum is defined
HasSymbolicPart(x) == split_product(x).r = "Ok"

\* C6: in every result no two children of a Sum have the same symbolic part
\* (after the leading rational coefficient is split off) and no two children
\* of a Product have the same base.
C6_LikeTermsCollected ==
    Returned =>
        \A m \in NaryNodes(output.v) :
            \A i \in 1..Len(m.l) : \A j \in (i + 1)..Len(m.l) :
                IF m.k = "Sum"
                THEN (HasSymbolicPart(m.l[i]) /\ HasSymbolicPart(m.l[j]))
                         => split_product(m.l[i]).sym # split_product(m.l[j]).sym
                ELSE (has_base(m.l[i]) /\ has_base(m.l[j]))
                         => base(m.l[i]) # base(m.l[j])

\* C7: simplification is idempotent: the value s that simplify returns,
\* converted back to the basic expression of the same shape and simplified
\* again, gives exactly s.
C7_Idempotent ==
    Returned => simplify(ToBasic(output.v)) = Ok(output.v)

\* C8: for every x whose simplification returns a value, simplify(Sum[0, x])
\* and simplify(Product[1, x]) both equal simplify(x).
C8_IdentityAbsorption ==
    Returned =>
        /\ simplify(Sum(<<FromInt(0), input>>)) = output
        /\ simplify(Product(<<FromInt(1), input>>)) = output

\* a Sum or Product of two children, both of which simplify to a value
TwoChildren ==
    /\ input.k \in {"Sum", "Product"}
    /\ Len(input.l) = 2
    /\ simplify(input.l[1]).t = "Ok"
    /\ simplify(input.l[2]).t = "Ok"

\* C9: the simplification of a two-child Sum or Product does not depend on
\* the order of the children.
C9_Commutative ==
    (pc # "start" /\ TwoChildren) =>
        simplify(make_list(input.k, <<input.l[2], input.l[1]>>)) = output

(***************************************************************************)
(* The canonical order as a state machine: a caller holds three simple     *)
(* expressions a, b, c (values simplify returns, and a few values of the   *)
(* type that are not canonical) and compares them.  Under                  *)
(* CmpSpec, input is the record of the three and output the record of the  *)
(* orderings cmp returned.                                                 *)
(***************************************************************************)
\* the simple expressions simplify returns on the Small inputs
Simples == {simplify(e).v : e \in {i \in Small : simplify(i).t = "Ok"}}

\* values of SimpleExpr that are not in canonical form: one-child lists and
\* powers with exponent 1 over the symbols
Uncollapsed == {Product(<<s>>) : s \in SymLeaves}
               \cup {Sum(<<s>>) : s \in SymLeaves}
               \cup {Pow(s, FromInt(1)) : s \in SymLeaves}

SimpleValues == Simples \cup Uncollapsed

CmpInit ==
    /\ input \in [a : SimpleValues, b : SimpleValues, c : SimpleValues]
    /\ output = [ab |-> "Equal", ba |-> "Equal", bc |-> "Equal", ac |-> "Equal"]
    /\ pc = "start"

\* a.cmp(&b), b.cmp(&a), b.cmp(&c), a.cmp(&c)
Compare ==
    /\ pc = "start"
    /\ output' = [ab |-> cmp(input.a, input.b), ba |-> cmp(input.b, input.a),
                  bc |-> cmp(input.b, input.c), ac |-> cmp(input.a, input.c)]
    /\ pc' = "compared"
    /\ UNCHANGED input

CmpNext == Compare

CmpSpec == CmpInit /\ [][CmpNext]_vars

\* C10: the canonical order is a total order: cmp(a, b) is the reverse of
\* cmp(b, a), and a < b with b < c implies a < c.
C10_TotalOrder ==
    pc = "compared" =>
        /\ output.ab = reverse(output.ba)
        /\ (output.ab = "Less" /\ output.bc = "Less") => output.ac = "Less"

\* C11: cmp(a, b) returns Equal if and only if a and b are structurally
\* equal.
C11_EqualIffSame ==
    pc = "compared" => ((output.ab = "Equal") <=> (input.a = input.b))

\* C12: if any sub-expression of the input simplifies to Undefined, then
\* simplify of the input returns Undefined.
C12_UndefinedPoisons ==
    (pc # "start" /\ \E s \in SubExprs(input) : simplify(s).t = "Undefined")
        => output.t = "Undefined"

(***************************************************************************)
(* Power simplification as a state machine: a caller holds a simplified    *)
(* base and a simplified exponent and calls simplify_power.  Under         *)
(* PowSpec, input is the record [b, e] and output the result.              *)
(***************************************************************************)
\* the non-integer constants 1/2 and -1/2
Halves == {Const(1, 2), Const(-1, 2)}

PowBases == Simples \cup Halves

\* the exponents: the integer constants of the inputs, the halves, and the
\* simple expressions that are not constants
PowExponents == {FromInt(i) : i \in -1..MaxInt} \cup Halves
                \cup {s \in Simples : s.k # "Const"}

PowInit ==
    /\ input \in [b : PowBases, e : PowExponents]
    /\ output = PanicExpr
    /\ pc = "start"

\* simplify_power(b, e) returns a value
PowerOk ==
    /\ pc = "start"
    /\ simplify_power(input.b, input.e).t = "Ok"
    /\ output' = simplify_power(input.b, input.e)
    /\ pc' = "done"
    /\ UNCHANGED input

\* simplify_power(b, e) returns Err(Undefined)
PowerUndefined ==
    /\ pc = "start"
    /\ simplify_power(input.b, input.e).t = "Undefined"
    /\ output' = simplify_power(input.b, input.e)
    /\ pc' = "done"
    /\ UNCHANGED input

\* simplify_power(b, e) panics
PowerPanic ==
    /\ pc = "start"
    /\ simplify_power(input.b, input.e).t = "Panic"
    /\ output' = simplify_power(input.b, input.e)
    /\ pc' = "panicked"
    /\ UNCHANGED input

PowNext == PowerOk \/ PowerUndefined \/ PowerPanic

PowSpec == PowInit /\ [][PowNext]_vars

\* C13: for simplified b and e, Pow(b, 0) with b not 0 simplifies to 1,
\* Pow(b, 1) to b, and Pow(1, e) to 1 whatever e is.
C13_PowerIdentities ==
    pc # "start" =>
        /\ (input.e = FromInt(0) /\ ~EqInt(input.b, 0)) => output = Ok(FromInt(1))
        /\ input.e = FromInt(1) => output = Ok(input.b)
        /\ EqInt(input.b, 1) => output = Ok(FromInt(1))

\* a symbolic base raised to 0 gave 1
C13_Witness ==
    /\ pc = "done"
    /\ input.b.k = "Symbol"
    /\ input.e = FromInt(0)
    /\ output = Ok(FromInt(1))

\* C14 as claimed: base 0 gives 0 for a positive integer constant exponent,
\* Undefined for a non-positive integer constant exponent, and the structural
\* Pow(0, e) in every other case, a non-integer constant exponent included.
C14_ZeroBaseClaimed ==
    (pc # "start" /\ EqInt(input.b, 0)) =>
        IF input.e.k = "Const" /\ is_integer(input.e)
        THEN (IF is_positive(input.e) THEN output = Ok(FromInt(0))
              ELSE output = UndefinedExpr)
        ELSE output = Ok(Pow(input.b, input.e))

\* C14 as amended: base 0 gives 0 for every positive constant exponent,
\* Undefined for every non-positive constant exponent (integer or not), and
\* the structural Pow(0, e) exactly when e is not a constant.
C14_ZeroBase ==
    (pc # "start" /\ EqInt(input.b, 0)) =>
        IF input.e.k = "Const"
        THEN (IF is_positive(input.e) THEN output = Ok(FromInt(0))
              ELSE output = UndefinedExpr)
        ELSE output = Ok(Pow(input.b, input.e))

\* 0 raised to the non-integer constant 1/2 gave 0
C14_Witness ==
    /\ pc = "done"
    /\ EqInt(input.b, 0)
    /\ input.e = Const(1, 2)
    /\ output = Ok(FromInt(0))

\* a term c*s or s of a sum: a symbol, or a Product of one constant and one symbol
IsTerm(c) ==
    \/ c.k = "Symbol"
    \/ /\ c.k = "Product"
       /\ Len(c.l) = 2
       /\ \E i \in 1..2 : c.l[i].k = "Const" /\ c.l[i].d # 0 /\ c.l[3 - i].k = "Symbol"

\* the coefficient of a term, a missing coefficient counting as 1
TermCoeff(c) ==
    IF c.k = "Symbol" THEN FromInt(1)
    ELSE IF c.l[1].k = "Const" THEN c.l[1] ELSE c.l[2]

\* the symbol of a term
TermSymbol(c) ==
    IF c.k = "Symbol" THEN c
    ELSE IF c.l[1].k = "Const" THEN c.l[2] ELSE c.l[1]

\* C15: simplifying the sum c1*s + c2*s gives the same result as simplifying
\* the product (c1 + c2)*s.
C15_LikeTermsAddCoefficients ==
    (/\ pc # "start"
     /\ input.k = "Sum"
     /\ Len(input.l) = 2
     /\ IsTerm(input.l[1])
     /\ IsTerm(input.l[2])
     /\ TermSymbol(input.l[1]) = TermSymbol(input.l[2]))
    => output = simplify(Product(<<ConstAdd(TermCoeff(input.l[1]), TermCoeff(input.l[2])),
                                   TermSymbol(input.l[1])>>))

\* C16: simplify always ends by returning a simple expression or Undefined;
\* it never reaches a state the code treats as a programmer error (a panic).
C16_NoProgrammerError ==
    pc # "start" => output.t \in {"Ok", "Undefined"}

\* C17: two children of a product with the same base combine into the power
\* of the base to the sum of the exponents: s*s gives Pow(s, 2) and
\* (x*y)*(x*y) gives the product of Pow(x, 2) and Pow(y, 2).
C17_LikeBasesCombine ==
    pc # "start" =>
        /\ (/\ input.k = "Product"
            /\ Len(input.l) = 2
            /\ input.l[1].k = "Symbol"
            /\ input.l[2] = input.l[1])
           => output = Ok(Pow(input.l[1], FromInt(2)))
        /\ input = Product(<<Product(<<Symbol("x"), Symbol("y")>>),
                             Product(<<Symbol("x"), Symbol("y")>>)>>)
           => output = Ok(Product(<<Pow(Symbol("x"), FromInt(2)),
                                    Pow(Symbol("y"), FromInt(2))>>))

\* C18: simplify of a Factorial or Function node whose operands simplify to
\* values returns the node of the same kind and name over the simplified
\* operands.
C18_OpaqueNodesPreserved ==
    (/\ pc # "start"
     /\ input.k \in {"Factorial", "Function"}
     /\ \A i \in 1..Len(input.l) : simplify(input.l[i]).t = "Ok")
    => output = Ok([input EXCEPT !.l = [i \in 1..Len(input.l) |-> simplify(input.l[i]).v]])

\* the reverse lexicographic order aligned at the right ends: element k from
\* the end of a against element k from the end of b, for k = 0, 1, ...
RECURSIVE RevLex(_, _, _)
RevLex(a, b, k) ==
    IF k >= Len(a) \/ k >= Len(b) THEN LenCmp(Len(a), Len(b))
    ELSE LET o == cmp(a[Len(a) - k], b[Len(b) - k])
         IN  IF o = "Equal" THEN RevLex(a, b, k + 1) ELSE o

\* C19: two Product (or two Sum) child lists compare in reverse
\* lexicographic order aligned at their right ends, the shorter list being
\* the smaller when every compared pair is equal, also for lists of
\* different lengths.
C19_ReverseLexicographic ==
    (/\ pc = "compared"
     /\ input.a.k \in {"Product", "Sum"}
     /\ input.a.k = input.b.k) =>
        output.ab = RevLex(input.a.l, input.b.l, 0)

\* ---------------------------------------------------------------------
\* merge, one iteration of merge_into at a time

\* the children of e as simplify_entry hands them to Operation::simplify
SortedChildren(e) == sort_unstable(simplify_all(e.l, 1, <<>>).v)

\* the expressions whose simplification reaches a merge from simplify_rec
\* or from the list arm of simplify_pair
Merging ==
    {e \in Inputs :
        /\ e.k \in {"Sum", "Product"}
        /\ simplify_all(e.l, 1, <<>>).t = "Ok"
        /\ ~(HAS_ABSORBING_ELEMENT(e.k)
             /\ \E i \in 1..Len(e.l) : is_absorbing_element(e.k, SortedChildren(e)[i]))
        /\ \/ Len(e.l) > 2
           \/ /\ Len(e.l) = 2
              /\ \E i \in 1..2 : is_list(e.k, SortedChildren(e)[i])}

\* the arguments of that merge
MergeCall(e) ==
    LET v == SortedChildren(e)
    IN  IF Len(v) > 2
        THEN [op |-> e.k, a |-> extract_or_make_list(e.k, Head(v)), b |-> Tail(v)]
        ELSE [op |-> e.k, a |-> extract_or_make_list(e.k, v[1]),
              b |-> extract_or_make_list(e.k, v[2])]

\* step is <<a, b>> \o simplified of the last iteration, <<>> before the first
MergeInit ==
    /\ input \in {MergeCall(e) : e \in Merging}
    /\ output = [a |-> input.a, b |-> input.b, out |-> <<>>, step |-> <<>>]
    /\ pc = "merging"

\* an iteration whose simplify_pair returns 0, 1 or 2 elements
MergeStep ==
    /\ pc = "merging"
    /\ output.a # <<>>
    /\ output.b # <<>>
    /\ LET a == Head(output.a)
           b == Head(output.b)
           a_rest == Tail(output.a)
           b_rest == Tail(output.b)
           would_swap == gt(a, b)
           simplified == simplify_pair(input.op, a, b)
       IN  /\ simplified.t = "Ok"
           /\ Len(simplified.v) <= 2
           /\ output' =
                IF Len(simplified.v) = 2
                THEN LET r == reinsert(would_swap, simplified.v[2], a_rest, b_rest)
                     IN  [a |-> r.a, b |-> r.b,
                          out |-> Append(output.out, simplified.v[1]),
                          step |-> <<a, b>> \o simplified.v]
                ELSE [a |-> a_rest, b |-> b_rest,
                      out |-> output.out \o simplified.v,
                      step |-> <<a, b>> \o simplified.v]
    /\ pc' = "merging"
    /\ UNCHANGED input

\* one list is empty: out.extend of the other, and the merge returns
MergeExhausted ==
    /\ pc = "merging"
    /\ output.a = <<>> \/ output.b = <<>>
    /\ output' = [output EXCEPT !.out = IF output.b = <<>> THEN @ \o output.a
                                        ELSE @ \o output.b,
                                !.step = <<>>]
    /\ pc' = "done"
    /\ UNCHANGED input

\* simplify_pair fails, or returns more than two elements (unreachable!)
MergeFail ==
    /\ pc = "merging"
    /\ output.a # <<>>
    /\ output.b # <<>>
    /\ LET simplified == simplify_pair(input.op, Head(output.a), Head(output.b))
       IN  simplified.t # "Ok" \/ Len(simplified.v) > 2
    /\ output' = [output EXCEPT !.step = <<Head(output.a), Head(output.b)>>]
    /\ pc' = "failed"
    /\ UNCHANGED input

MergeNext == MergeStep \/ MergeExhausted \/ MergeFail

MergeSpec == MergeInit /\ [][MergeNext]_vars

\* the iterations compute what merge computes
MergeAgrees ==
    /\ pc = "done" => merge(input.op, input.a, input.b) = Ok(output.out)
    /\ pc = "failed" => merge(input.op, input.a, input.b).t # "Ok"

\* an iteration of merge_into has just handled a two-element result
TwoReturned == pc = "merging" /\ pc' = "merging" /\ Len(output'.step) = 4

====
